---- MODULE Spec2Model ----
(***************************************************************************)
(* Command resolution and dispatch core of orlybot2:                       *)
(*   src/src/core/commands/command.ts  (Command: builder, matches, run,    *)
(*                                      keywords, commandName, help)       *)
(*   src/src/core/commands/runner.ts   (CommandRunner: handle,             *)
(*                                      handleSingle, resolveCommand,      *)
(*                                      execute)                           *)
(* The registry (core/commands/registry) and the Message class             *)
(* (core/model/message) are not part of the sources at hand; they are      *)
(* modelled from the written specification.                                *)
(*                                                                         *)
(* A string is a sequence of one-character strings, so that toLowerCase,   *)
(* startsWith, split and join are computed and not assumed.                *)
(***************************************************************************)
EXTENDS Integers, Sequences, FiniteSets, TLC

\* ------------------------------------------------------------------ bounds
\* Largest number of sub-messages parentMessage.all() yields.
MaxSubs == 2
\* Largest number of tokens of a message text.
MaxTokens == 3
\* Largest number of Command objects the setup code constructs.
MaxNodes == 3
\* Largest number of builder calls the setup code makes.
MaxSetupOps == 4

\* --------------------------------------------------------- CommandPermission
USER == 0
ADMIN == 1

\* ------------------------------------------------------------------ strings
sx == <<"x">>
sy == <<"y">>
sz == <<"z">>
sX == <<"X">>
sxy == <<"x", " ", "y">>
sEmpty == << >>
sText == <<"o", "k">>
sPipe == <<"|">>
sSpace == <<" ">>
sDash == <<"-">>

\* The value of an absent array element or an unset property.
Undefined == <<"undefined">>

LowerChar(c) ==
    CASE c = "X" -> "x"
      [] c = "Y" -> "y"
      [] c = "Z" -> "z"
      [] OTHER -> c

\* String.prototype.toLowerCase
ToLowerCase(s) == [i \in DOMAIN s |-> LowerChar(s[i])]

\* String.prototype.startsWith
StartsWith(s, p) == Len(p) <= Len(s) /\ SubSeq(s, 1, Len(p)) = p

\* Array.prototype.includes
Includes(seq, v) == \E i \in DOMAIN seq : seq[i] = v

\* The elements of a sequence.
Range(seq) == { seq[i] : i \in DOMAIN seq }

\* Array.prototype.join
RECURSIVE Join(_, _)
Join(parts, sep) ==
    IF Len(parts) = 0 THEN << >>
    ELSE IF Len(parts) = 1 THEN parts[1]
    ELSE parts[1] \o sep \o Join(Tail(parts), sep)

\* flat(): concatenation of a sequence of sequences
RECURSIVE Flat(_)
Flat(seqs) == IF Len(seqs) = 0 THEN << >> ELSE seqs[1] \o Flat(Tail(seqs))

\* Message.tokens: the whitespace-delimited tokens of the text.
RECURSIVE SplitFrom(_, _)
SplitFrom(s, cur) ==
    IF Len(s) = 0 THEN (IF Len(cur) = 0 THEN << >> ELSE <<cur>>)
    ELSE IF s[1] = " "
         THEN (IF Len(cur) = 0 THEN << >> ELSE <<cur>>) \o SplitFrom(Tail(s), << >>)
         ELSE SplitFrom(Tail(s), Append(cur, s[1]))

Tokens(text) == SplitFrom(text, << >>)

\* Message.firstToken
FirstToken(text) ==
    LET tokens == Tokens(text)
    IN IF Len(tokens) = 0 THEN Undefined ELSE tokens[1]

\* ------------------------------------------------------- Command (builder)
\* A Command object after its constructor: the field initialisers and
\* set({ keyword, action }).  phrase and hidden start unset, which every
\* reader treats as false.  parent = 0 stands for an unset parent.
\* subcommands is the Record in key insertion order, as Object.values
\* enumerates it (no keyword of the model is an integer-like key).
NewCommand(keyword) ==
    [keyword |-> keyword, permission |-> USER, aliases |-> << >>,
     phrase |-> FALSE, parent |-> 0, subcommands |-> << >>,
     hidden |-> FALSE, description |-> Undefined]

\* Command.sub: a new command that is not registered.
Sub(c, keyword) == Append(c, NewCommand(keyword))

\* Command.admin
Admin(c, n) == [c EXCEPT ![n].permission = ADMIN]

\* Command.isPhrase
IsPhrase(c, n) == [c EXCEPT ![n].phrase = TRUE]

\* Command.alias
Alias(c, n, keyword) == [c EXCEPT ![n].aliases = Append(@, keyword)]

\* Command.hide
Hide(c, n) == [c EXCEPT ![n].hidden = TRUE]

\* Command.desc
Desc(c, n, description) == [c EXCEPT ![n].description = description]

\* this.subcommands[subcommand.keyword] = subcommand
PutSub(subs, key, s) ==
    IF \E i \in DOMAIN subs : subs[i].key = key
    THEN [i \in DOMAIN subs |->
            IF subs[i].key = key THEN [key |-> key, cmd |-> s] ELSE subs[i]]
    ELSE Append(subs, [key |-> key, cmd |-> s])

\* Command.nest
Nest(c, p, s) ==
    [c EXCEPT ![p].subcommands = PutSub(@, c[s].keyword, s),
              ![s].parent = p]

\* ---------------------------------------------------------------- registry
\* registry.register: appends in registration order; a duplicate keyword is
\* a configuration error.
CanRegister(c, reg, keyword) == \A i \in DOMAIN reg : c[reg[i]].keyword # keyword

Register(reg, n) == Append(reg, n)

\* registry.find: exact equality lookup of a top-level keyword; 0 = absent.
Find(c, reg, token) ==
    IF \E i \in DOMAIN reg : c[reg[i]].keyword = token
    THEN reg[CHOOSE i \in DOMAIN reg : c[reg[i]].keyword = token]
    ELSE 0

\* The position of the first TRUE in a sequence of booleans; 0 = none.  It
\* is the scan of registry.findMatch and of Array.prototype.find in run.
FirstTrue(hits) ==
    IF \E i \in DOMAIN hits : hits[i]
    THEN CHOOSE i \in DOMAIN hits : hits[i] /\ \A j \in 1..(i - 1) : ~hits[j]
    ELSE 0

\* ------------------------------------------- Command (matching, execution)
\* matches without the test of this.phrase: every keyword is a phrase.
MatchesAsPhrase(c, n, text) ==
    IF StartsWith(ToLowerCase(text), ToLowerCase(c[n].keyword))
    THEN TRUE
    ELSE Includes(c[n].aliases, FirstToken(text))

\* matches with the alias test made case-insensitive, as the phrase test is.
MatchesAliasIgnoringCase(c, n, text) ==
    IF c[n].phrase /\ StartsWith(ToLowerCase(text), ToLowerCase(c[n].keyword))
    THEN TRUE
    ELSE Includes(c[n].aliases, ToLowerCase(FirstToken(text)))

\* Command.matches: the second-pass predicate.
Matches(c, n, text) ==
    IF c[n].phrase /\ StartsWith(ToLowerCase(text), ToLowerCase(c[n].keyword))
    THEN TRUE
    ELSE Includes(c[n].aliases, FirstToken(text))

\* registry.findMatch: the first command in registration order that matches.
FindMatch(c, reg, text) ==
    LET k == FirstTrue([i \in DOMAIN reg |-> Matches(c, reg[i], text)])
    IN IF k = 0 THEN 0 ELSE reg[k]

\* The parent chain of n never reaches a command without parent: the
\* recursion of commandName does not end (RangeError: Maximum call stack
\* size exceeded).
RECURSIVE ParentChainEnds(_, _, _)
ParentChainEnds(c, n, fuel) ==
    IF c[n].parent = 0 THEN TRUE
    ELSE IF fuel = 0 THEN FALSE
    ELSE ParentChainEnds(c, c[n].parent, fuel - 1)

HasParentCycle(c, n) == ~ParentChainEnds(c, n, Len(c))

\* Command.commandName (defined where the parent chain ends)
RECURSIVE CommandName(_, _)
CommandName(c, n) ==
    IF c[n].parent # 0
    THEN CommandName(c, c[n].parent) \o sSpace \o c[n].keyword
    ELSE c[n].keyword

\* Command.keywords
Keywords(c, n) == Join(<<CommandName(c, n)>> \o c[n].aliases, sPipe)

\* message.tokens[i] for a 0-based index i
TokenAt(tokens, i) == IF i + 1 <= Len(tokens) THEN tokens[i + 1] ELSE Undefined

\* The predicate of run's find over the subcommands.
SubMatches(c, s, nextToken) ==
    c[s].keyword = nextToken \/ Includes(c[s].aliases, nextToken)

\* Object.values(this.subcommands).find(...): the first match in key
\* insertion order; 0 = none.
MatchedSub(c, n, nextToken) ==
    LET values == [i \in DOMAIN c[n].subcommands |-> c[n].subcommands[i].cmd]
        k == FirstTrue([i \in DOMAIN values |-> SubMatches(c, values[i], nextToken)])
    IN IF k = 0 THEN 0 ELSE values[k]

\* slice(step) in the place of slice(step + 1): the arguments start one
\* token early.
SliceFromStep(tokens, start) == SubSeq(tokens, start, Len(tokens))

\* message.tokens.slice(start) for a 0-based start
Slice(tokens, start) == SubSeq(tokens, start + 1, Len(tokens))

\* Command.run up to the call of the action: the node whose action is
\* invoked and the arguments it gets, or the exception raised on the way
\* (the log line evaluates this.keywords on every node run reaches).
RECURSIVE Run(_, _, _, _)
Run(c, n, tokens, step) ==
    IF HasParentCycle(c, n)
    THEN [kind |-> "throw", node |-> n, step |-> step, args |-> << >>]
    ELSE LET nextToken == TokenAt(tokens, step + 1)
             matchedSub == IF Len(tokens) >= step
                           THEN MatchedSub(c, n, nextToken)
                           ELSE 0
         IN IF matchedSub # 0
            THEN Run(c, matchedSub, tokens, step + 1)
            ELSE [kind |-> "invoke", node |-> n, step |-> step,
                  args |-> Slice(tokens, step + 1)]

\* Every result replied publicly, whatever the permission.
ReplyChannelPublic(c, n) == "reply"

\* A permission that the subcommands inherit: the result is ephemeral when
\* the node or any command above it is not USER.
RECURSIVE ReplyChannelInherited(_, _)
ReplyChannelInherited(c, n) ==
    IF c[n].permission # USER THEN "replyEphemeral"
    ELSE IF c[n].parent # 0 THEN ReplyChannelInherited(c, c[n].parent)
    ELSE "reply"

\* The reply operation run uses for a string result of node n's action.
ReplyChannel(c, n) ==
    IF c[n].permission # USER THEN "replyEphemeral" ELSE "reply"

\* A truthiness test in the place of the typeof test: '' is not replied.
IsNonEmptyString(result) == result # Undefined /\ result # sEmpty

\* typeof result === 'string'
IsString(result) == result # Undefined

\* ---------------------------------------------------------- Command (help)
\* The text of one help line: [name, ...arguments, '-', description]
\* joined by spaces; no command of the model declares arguments, and an
\* unset description joins as the empty string.
HelpLine(c, n, name) ==
    Join(<<name, sDash,
           IF c[n].description = Undefined THEN sEmpty ELSE c[n].description>>,
         sSpace)

\* help that leaves out a hidden command's own line only and still lists
\* its subcommands.
RECURSIVE HelpHidingOwnLine(_, _)
HelpHidingOwnLine(c, n) ==
    (IF c[n].hidden THEN << >> ELSE <<HelpLine(c, n, CommandName(c, n))>>)
    \o Flat([i \in DOMAIN c[n].subcommands |->
                HelpHidingOwnLine(c, c[n].subcommands[i].cmd)])

\* Command.help (defined where HelpEnds holds)
RECURSIVE Help(_, _)
Help(c, n) ==
    IF c[n].hidden THEN << >>
    ELSE <<HelpLine(c, n, CommandName(c, n))>>
         \o Flat([i \in DOMAIN c[n].subcommands |->
                     Help(c, c[n].subcommands[i].cmd)])

\* Command.helpWithAliases (defined where HelpEnds holds)
HelpWithAliases(c, n) ==
    IF c[n].hidden THEN << >>
    ELSE <<HelpLine(c, n, Keywords(c, n))>>
         \o Flat([i \in DOMAIN c[n].subcommands |->
                     Help(c, c[n].subcommands[i].cmd)])

\* The recursion of help from n ends: within fuel levels it meets no
\* subcommand again and every name it composes has an ending parent chain.
RECURSIVE HelpEndsWithin(_, _, _)
HelpEndsWithin(c, n, fuel) ==
    \/ c[n].hidden
    \/ /\ ~HasParentCycle(c, n)
       /\ \A i \in DOMAIN c[n].subcommands :
            /\ fuel > 0
            /\ HelpEndsWithin(c, c[n].subcommands[i].cmd, fuel - 1)

HelpEnds(c, n) == HelpEndsWithin(c, n, Len(c))

\* ------------------------------------------------------------ CommandRunner
\* The two passes in the wrong order: registry.findMatch(...) ?? registry.find(...)
ResolveMatchFirst(c, reg, text) ==
    IF FindMatch(c, reg, text) # 0
    THEN FindMatch(c, reg, text)
    ELSE Find(c, reg, FirstToken(text))

\* CommandRunner.resolveCommand: registry.find(...) ?? registry.findMatch(...)
ResolveCommand(c, reg, text) ==
    IF Find(c, reg, FirstToken(text)) # 0
    THEN Find(c, reg, FirstToken(text))
    ELSE FindMatch(c, reg, text)

\* CommandRunner.isNoOp
IsNoOp(command) == command = 0

\* The action has not returned.
NoResult == <<"pending">>

\* A sub-message as parentMessage.all() hands it to handleSingle, with the
\* bookkeeping of what was called on it:
\*   pc       where its handling stands
\*   promise  the promise handleSingle returned for it
\*   command  the command the runner resolved (0 = none)
\*   invoked  the action calls made, each the node and the arguments
\*   result   what the action handed back (NoResult until it returns)
\*   reply, replyEphemeral  the texts passed to message.reply/replyEphemeral
\*   replySystemError       the number of message.replySystemError calls
NewMessage(text) ==
    [text |-> text, pc |-> "unresolved", promise |-> "none", command |-> 0,
     invoked |-> << >>, result |-> NoResult, reply |-> << >>, replyEphemeral |-> << >>,
     replySystemError |-> 0]

\* execute without its catch: the error escapes and nothing is reported.
Uncaught(m) == [m EXCEPT !.pc = "failed", !.promise = "rejected"]

\* A catch block that reports the error and runs the command again.
CaughtRetrying(m) ==
    [m EXCEPT !.pc = "running", !.promise = "pending",
              !.replySystemError = @ + 1,
              !.invoked = IF @ = << >> THEN @ ELSE Append(@, @[Len(@)])]

\* The catch block of CommandRunner.execute: the error is reported on the
\* message and execute returns normally.
Caught(m) ==
    [m EXCEPT !.pc = "failed", !.promise = "fulfilled",
              !.replySystemError = @ + 1]

\* execute with its try around the action alone: an error raised after the
\* action returned, by reply or replyEphemeral, escapes.
ExecuteCatchingActionOnly(m, threw) ==
    IF threw
    THEN IF m.result = NoResult THEN Caught(m) ELSE Uncaught(m)
    ELSE [m EXCEPT !.pc = "completed", !.promise = "fulfilled"]

\* CommandRunner.execute once command.run has settled.
Execute(m, threw) ==
    IF threw THEN Caught(m)
    ELSE [m EXCEPT !.pc = "completed", !.promise = "fulfilled"]

\* command.run from its start to the call of the action.
StartRun(c, m, command) ==
    LET r == Run(c, command, Tokens(m.text), 0)
    IN IF r.kind = "throw"
       THEN Execute([m EXCEPT !.command = command], TRUE)
       ELSE [m EXCEPT !.command = command, !.pc = "running",
                      !.promise = "pending",
                      !.invoked = Append(@, [node |-> r.node, args |-> r.args])]

\* The node whose action is running for m.
Terminal(m) == m.invoked[Len(m.invoked)].node

\* command.run after the action returned result.
AfterAction(c, m, result) ==
    IF IsString(result)
    THEN IF ReplyChannel(c, Terminal(m)) = "replyEphemeral"
         THEN [m EXCEPT !.pc = "replying", !.result = result,
                        !.replyEphemeral = Append(@, result)]
         ELSE [m EXCEPT !.pc = "replying", !.result = result,
                        !.reply = Append(@, result)]
    ELSE Execute([m EXCEPT !.result = result], FALSE)

\* Promise.race in the place of Promise.all: settled with the first promise.
PromiseRaceOutcome(ms) ==
    IF \E i \in DOMAIN ms : ms[i].promise = "rejected" THEN "rejected"
    ELSE IF \E i \in DOMAIN ms : ms[i].promise = "fulfilled" THEN "fulfilled"
    ELSE "pending"

\* The outcome of Promise.all over the promises of handleSingle: rejected
\* as soon as one is rejected, fulfilled once all are fulfilled.
PromiseAllOutcome(ms) ==
    IF \E i \in DOMAIN ms : ms[i].promise = "rejected" THEN "rejected"
    ELSE IF \A i \in DOMAIN ms : ms[i].promise = "fulfilled" THEN "fulfilled"
    ELSE "pending"

\* A loop that awaits each handleSingle before it calls the next.
MayStartSequential(ms, i) ==
    \A j \in 1..(i - 1) : ms[j].pc \in {"noop", "completed", "failed"}

\* map(this.handleSingle) calls handleSingle on the sub-messages in order,
\* each call running up to its first suspension before the next starts.
MayStart(ms, i) == \A j \in 1..(i - 1) : ms[j].pc # "unresolved"

\* ------------------------------------------------------------------- state
VARIABLES
    cmds,        \* the Command objects, in order of construction
    registry,    \* the registered (top-level) commands, in registration order
    setupOps,    \* the number of builder calls made so far
    handle,      \* the promise of CommandRunner.handle: idle before the call
    userIsAdmin, \* whether the sender of the parent message is an admin
    subs         \* the sub-messages of the parent message being handled

vars == <<cmds, registry, setupOps, handle, userIsAdmin, subs>>

setupVars == <<cmds, registry, setupOps>>
trafficVars == <<handle, userIsAdmin, subs>>

\* --------------------------------------------------------- inputs (setup)
TopKeywords == {sx, sy, sxy}
SubKeywords == {sx, sy}
AliasChoices == {Undefined, sx, sy}

\* One builder call of the setup code.
OpCreate(k) == [op |-> "create", k |-> k, n |-> 0, s |-> 0]
OpSub(k) == [op |-> "sub", k |-> k, n |-> 0, s |-> 0]
OpAlias(n, k) == [op |-> "alias", k |-> k, n |-> n, s |-> 0]
OpAdmin(n) == [op |-> "admin", k |-> sEmpty, n |-> n, s |-> 0]
OpIsPhrase(n) == [op |-> "isPhrase", k |-> sEmpty, n |-> n, s |-> 0]
OpNest(n, s) == [op |-> "nest", k |-> sEmpty, n |-> n, s |-> s]

\* Command.create: a new command, registered.
Create(st, keyword) ==
    [cmds |-> Sub(st.cmds, keyword),
     registry |-> Register(st.registry, Len(st.cmds) + 1),
     ok |-> st.ok /\ CanRegister(st.cmds, st.registry, keyword)]

\* The effect of one builder call on the commands and the registry.
ApplyOp(st, o) ==
    CASE o.op = "create" -> Create(st, o.k)
      [] o.op = "sub" -> [st EXCEPT !.cmds = Sub(@, o.k)]
      [] o.op = "alias" -> [st EXCEPT !.cmds = Alias(@, o.n, o.k)]
      [] o.op = "admin" -> [st EXCEPT !.cmds = Admin(@, o.n)]
      [] o.op = "isPhrase" -> [st EXCEPT !.cmds = IsPhrase(@, o.n)]
      [] o.op = "nest" -> [st EXCEPT !.cmds = Nest(@, o.n, o.s)]

\* The commands and the registry after a setup program has run.
RECURSIVE ApplyAll(_, _)
ApplyAll(st, prog) ==
    IF Len(prog) = 0 THEN st ELSE ApplyAll(ApplyOp(st, prog[1]), Tail(prog))

RunProgram(prog) ==
    ApplyAll([cmds |-> << >>, registry |-> << >>, ok |-> TRUE], prog)

\* The chained configuration calls on command n.
Deco(n, alias, phrase, admin) ==
    (IF alias # Undefined THEN <<OpAlias(n, alias)>> ELSE << >>)
    \o (IF phrase THEN <<OpIsPhrase(n)>> ELSE << >>)
    \o (IF admin THEN <<OpAdmin(n)>> ELSE << >>)

\* Setup programs with two top-level commands.
TopPrograms ==
    { <<OpCreate(k1)>> \o Deco(1, a1, p1, ad1)
      \o <<OpCreate(k2)>> \o Deco(2, a2, p2, FALSE) :
        k1 \in TopKeywords, k2 \in TopKeywords, a1 \in AliasChoices,
        a2 \in AliasChoices, p1 \in BOOLEAN, p2 \in BOOLEAN, ad1 \in BOOLEAN }

\* The nest calls that attach subcommands 2 and 3 under command 1.
Shape(shape) ==
    CASE shape = "siblings23" -> <<OpNest(1, 2), OpNest(1, 3)>>
      [] shape = "siblings32" -> <<OpNest(1, 3), OpNest(1, 2)>>
      [] shape = "chain" -> <<OpNest(2, 3), OpNest(1, 2)>>

\* Setup programs with one top-level command and two subcommands.
TreePrograms ==
    { <<OpCreate(sx)>> \o Deco(1, Undefined, FALSE, ad1)
      \o <<OpSub(k2)>> \o Deco(2, a2, FALSE, ad2)
      \o <<OpSub(k3)>> \o Deco(3, a3, FALSE, FALSE)
      \o Shape(shape) :
        ad1 \in BOOLEAN, ad2 \in BOOLEAN, k2 \in SubKeywords,
        k3 \in SubKeywords, a2 \in AliasChoices, a3 \in AliasChoices,
        shape \in {"siblings23", "siblings32", "chain"} }

\* Setup programs that nest a command under itself or under its own child,
\* or nest two subcommands under each other and one of them under a
\* registered command (its parent chain then ends at that command).
CyclePrograms ==
    { <<OpCreate(sx), OpNest(1, 1)>>,
      <<OpCreate(sx), OpSub(sy), OpNest(1, 2), OpNest(2, 1)>>,
      <<OpCreate(sx), OpSub(sx), OpSub(sy), OpNest(2, 3), OpNest(3, 2), OpNest(1, 2)>> }

\* The nest calls that make commands 2, 3 and 4 descendants of command 1.
HelpShape(shape) ==
    CASE shape = "fan" -> <<OpNest(1, 2), OpNest(1, 3), OpNest(1, 4)>>
      [] shape = "fork" -> <<OpNest(1, 2), OpNest(2, 4), OpNest(1, 3)>>
      [] shape = "chain" -> <<OpNest(3, 4), OpNest(2, 3), OpNest(1, 2)>>

\* Setup programs of the help model: one top-level command with three
\* descendants, one of which may have an alias.
HelpPrograms ==
    { <<OpCreate(sx), OpSub(k2)>> \o Deco(2, a2, FALSE, FALSE)
      \o <<OpSub(k3), OpSub(k4)>> \o HelpShape(shape) :
        k2 \in SubKeywords, k3 \in SubKeywords, k4 \in SubKeywords,
        a2 \in AliasChoices, shape \in {"fan", "fork", "chain"} }

\* Setup programs of the dispatch model: a top-level command with a
\* subcommand that may be admin-only, and a second top-level command with
\* an alias.
DispatchPrograms ==
    { <<OpCreate(sx), OpSub(sy)>> \o Deco(2, Undefined, FALSE, ad2)
      \o <<OpNest(1, 2), OpCreate(sy), OpAlias(3, sX)>> :
        ad2 \in BOOLEAN }

\* -------------------------------------------------------- inputs (traffic)
TokenChoices == {sx, sy, sX}

\* The token sequences of 1..n tokens.
RECURSIVE TokenSeqs(_)
TokenSeqs(n) ==
    IF n = 0 THEN { << >> }
    ELSE LET shorter == TokenSeqs(n - 1)
         IN shorter \cup { Append(ts, t) : ts \in shorter, t \in TokenChoices }

\* The message texts: 1..MaxTokens tokens separated by single spaces.
Texts == { Join(ts, sSpace) : ts \in TokenSeqs(MaxTokens) \ { << >> } }

\* The message texts of the dispatch model.
DispatchTexts == {sxy, sX, sz}

\* What an action hands back: nothing, the empty string, or a text.
Results == {Undefined, sEmpty, sText}

\* The lists parentMessage.all() can yield: 1..n messages with the texts.
RECURSIVE MessageLists(_, _)
MessageLists(texts, n) ==
    IF n = 0 THEN { << >> }
    ELSE LET shorter == MessageLists(texts, n - 1)
         IN shorter \cup { Append(ms, NewMessage(t)) : ms \in shorter, t \in texts }

\* ------------------------------------------------------------ setup actions
SetupInit ==
    /\ cmds = << >>
    /\ registry = << >>
    /\ setupOps = 0
    /\ handle = "idle"
    /\ userIsAdmin = FALSE
    /\ subs = << >>

Nodes == 1..Len(cmds)

SetupStep(st) ==
    /\ setupOps < MaxSetupOps
    /\ st.ok
    /\ cmds' = st.cmds
    /\ registry' = st.registry
    /\ setupOps' = setupOps + 1
    /\ UNCHANGED trafficVars

Current == [cmds |-> cmds, registry |-> registry, ok |-> TRUE]

CallCreate ==
    \E k \in TopKeywords :
        /\ Len(cmds) < MaxNodes
        /\ SetupStep(ApplyOp(Current, OpCreate(k)))

CallSub ==
    \E k \in SubKeywords :
        /\ Len(cmds) < MaxNodes
        /\ SetupStep(ApplyOp(Current, OpSub(k)))

CallAlias ==
    \E n \in Nodes, k \in AliasChoices \ {Undefined} :
        SetupStep(ApplyOp(Current, OpAlias(n, k)))

CallAdmin == \E n \in Nodes : SetupStep(ApplyOp(Current, OpAdmin(n)))

CallIsPhrase == \E n \in Nodes : SetupStep(ApplyOp(Current, OpIsPhrase(n)))

CallHide == \E n \in Nodes : SetupStep([Current EXCEPT !.cmds = Hide(@, n)])

CallDesc ==
    \E n \in Nodes : SetupStep([Current EXCEPT !.cmds = Desc(@, n, sText)])

CallNest == \E n \in Nodes, s \in Nodes : SetupStep(ApplyOp(Current, OpNest(n, s)))

SetupNext ==
    \/ CallCreate
    \/ CallSub
    \/ CallAlias
    \/ CallAdmin
    \/ CallIsPhrase
    \/ CallHide
    \/ CallDesc
    \/ CallNest

\* The setup code: any builder calls, in any order.
SetupSpec == SetupInit /\ [][SetupNext]_vars

\* ---------------------------------------------------------- traffic actions
\* The state when traffic begins: the setup program has run.
Serving(programs) ==
    \E prog \in programs :
        LET st == RunProgram(prog)
        IN /\ st.ok
           /\ cmds = st.cmds
           /\ registry = st.registry
           /\ setupOps = Len(prog)
           /\ handle = "idle"
           /\ userIsAdmin = FALSE
           /\ subs = << >>

\* CommandRunner.handle(parentMessage) up to Promise.all: parentMessage.all()
\* has yielded the sub-messages.
Handle(lists) ==
    /\ handle = "idle"
    /\ \E ms \in lists \ { << >> } : subs' = ms
    /\ \E a \in BOOLEAN : userIsAdmin' = a
    /\ handle' = "pending"
    /\ UNCHANGED setupVars

\* handleSingle over a keywords getter that builds the joined name in place
\* (this.aliases.unshift(this.commandName)) where the code spreads the
\* aliases into a new array: the log line of run then changes the command.
HandleSingleUnshift(i) ==
    /\ i \in DOMAIN subs
    /\ handle = "pending"
    /\ subs[i].pc = "unresolved"
    /\ MayStart(subs, i)
    /\ LET command == ResolveCommand(cmds, registry, subs[i].text)
       IN /\ subs' = [subs EXCEPT ![i] =
                        IF IsNoOp(command)
                        THEN [@ EXCEPT !.pc = "noop", !.promise = "fulfilled"]
                        ELSE StartRun(cmds, @, command)]
          /\ cmds' = IF IsNoOp(command) THEN cmds
                     ELSE [cmds EXCEPT ![command].aliases =
                                           <<CommandName(cmds, command)>> \o @]
    /\ UNCHANGED <<registry, setupOps, handle, userIsAdmin>>

\* CommandRunner.handleSingle(subs[i]) up to its first suspension: the
\* runner is constructed (resolveCommand), and unless it is a no-op,
\* execute starts command.run, which descends and calls the action.
HandleSingle(i) ==
    /\ i \in DOMAIN subs
    /\ handle = "pending"
    /\ subs[i].pc = "unresolved"
    /\ MayStart(subs, i)
    /\ LET command == ResolveCommand(cmds, registry, subs[i].text)
       IN subs' = [subs EXCEPT ![i] =
                     IF IsNoOp(command)
                     THEN [@ EXCEPT !.pc = "noop", !.promise = "fulfilled"]
                     ELSE StartRun(cmds, @, command)]
    /\ UNCHANGED <<setupVars, handle, userIsAdmin>>

\* The action of sub-message i returns (or resolves to) result.
ActionReturns(i) ==
    /\ i \in DOMAIN subs
    /\ subs[i].pc = "running"
    /\ \E result \in Results :
         subs' = [subs EXCEPT ![i] = AfterAction(cmds, @, result)]
    /\ UNCHANGED <<setupVars, handle, userIsAdmin>>

\* The action of sub-message i throws (or rejects).
ActionThrows(i) ==
    /\ i \in DOMAIN subs
    /\ subs[i].pc = "running"
    /\ subs' = [subs EXCEPT ![i] = Execute(@, TRUE)]
    /\ UNCHANGED <<setupVars, handle, userIsAdmin>>

\* The action of sub-message i is one that never returns.
ActionHangs(i) ==
    /\ i \in DOMAIN subs
    /\ subs[i].pc = "running"
    /\ subs' = [subs EXCEPT ![i].pc = "hung"]
    /\ UNCHANGED <<setupVars, handle, userIsAdmin>>

\* message.reply / replyEphemeral of sub-message i resolves.
ReplyResolves(i) ==
    /\ i \in DOMAIN subs
    /\ subs[i].pc = "replying"
    /\ subs' = [subs EXCEPT ![i] = Execute(@, FALSE)]
    /\ UNCHANGED <<setupVars, handle, userIsAdmin>>

\* message.reply / replyEphemeral of sub-message i rejects.
ReplyRejects(i) ==
    /\ i \in DOMAIN subs
    /\ subs[i].pc = "replying"
    /\ subs' = [subs EXCEPT ![i] = Execute(@, TRUE)]
    /\ UNCHANGED <<setupVars, handle, userIsAdmin>>

\* await Promise.all(...) settles and with it CommandRunner.handle.
PromiseAll ==
    /\ handle = "pending"
    /\ PromiseAllOutcome(subs) # "pending"
    /\ handle' = PromiseAllOutcome(subs)
    /\ UNCHANGED <<setupVars, userIsAdmin, subs>>

\* Dispatch: a parent message with up to MaxSubs sub-messages.
Init == Serving(DispatchPrograms)

HandleParent == Handle(MessageLists(DispatchTexts, MaxSubs))

Next ==
    \/ HandleParent
    \/ \E i \in 1..MaxSubs : HandleSingle(i)
    \/ \E i \in 1..MaxSubs : ActionReturns(i)
    \/ \E i \in 1..MaxSubs : ActionThrows(i)
    \/ \E i \in 1..MaxSubs : ActionHangs(i)
    \/ \E i \in 1..MaxSubs : ReplyResolves(i)
    \/ \E i \in 1..MaxSubs : ReplyRejects(i)
    \/ PromiseAll

Spec == Init /\ [][Next]_vars

\* The event loop runs every continuation that is ready: a sub-message that
\* can start is started, an action that was called returns, throws or is
\* one that never returns, a reply that was sent settles, and Promise.all
\* settles once it can.
Fairness ==
    /\ \A i \in 1..MaxSubs :
         /\ WF_vars(HandleSingle(i))
         /\ WF_vars(ActionReturns(i) \/ ActionThrows(i) \/ ActionHangs(i))
         /\ WF_vars(ReplyResolves(i) \/ ReplyRejects(i))
    /\ WF_vars(PromiseAll)

\* Dispatch under the event loop's fairness, over the setup whose
\* subcommand is not admin-only and the texts that resolve and that do not.
FairInit == Serving({ prog \in DispatchPrograms : OpAdmin(2) \notin Range(prog) })

HandleFair == Handle(MessageLists({sxy, sz}, MaxSubs))

FairNext ==
    \/ HandleFair
    \/ \E i \in 1..MaxSubs : HandleSingle(i)
    \/ \E i \in 1..MaxSubs : ActionReturns(i)
    \/ \E i \in 1..MaxSubs : ActionThrows(i)
    \/ \E i \in 1..MaxSubs : ActionHangs(i)
    \/ \E i \in 1..MaxSubs : ReplyResolves(i)
    \/ \E i \in 1..MaxSubs : ReplyRejects(i)
    \/ PromiseAll

FairSpec == FairInit /\ [][FairNext]_vars /\ Fairness

\* Resolution and execution of one message against many setups.
RunInit == Serving(TopPrograms \cup TreePrograms)

HandleOne == Handle(MessageLists(Texts, 1))

RunNext ==
    \/ HandleOne
    \/ HandleSingle(1)
    \/ ActionReturns(1)
    \/ ActionThrows(1)
    \/ ActionHangs(1)
    \/ ReplyResolves(1)
    \/ ReplyRejects(1)
    \/ PromiseAll

RunSpec == RunInit /\ [][RunNext]_vars

\* ================================================================== claims
\* Sub-message i has reached its outcome: no-op, completed, or its own
\* caught failure.
Outcome(i) == i \in DOMAIN subs /\ subs[i].pc \in {"noop", "completed", "failed"}

\* The action of sub-message i threw or rejected, and the runner caught it.
ActionFailed(i) ==
    /\ i \in DOMAIN subs
    /\ subs[i].pc = "failed"
    /\ subs[i].invoked # << >>
    /\ subs[i].result = NoResult

\* The action of sub-message i never returns.
Hung(i) == i \in DOMAIN subs /\ subs[i].pc = "hung"

\* C1 (fault isolation): when the matched action of a sub-message throws or
\* rejects, replySystemError is called exactly once on that sub-message (and
\* on no sub-message that did not fail), CommandRunner.handle never rejects,
\* and every other sub-message still reaches its own outcome unless its own
\* action never returns.
C1_FaultIsolation ==
    /\ [](handle # "rejected")
    /\ [](\A i \in DOMAIN subs :
            subs[i].replySystemError = IF subs[i].pc = "failed" THEN 1 ELSE 0)
    /\ (\E i \in DOMAIN subs : ActionFailed(i))
         ~> (\A j \in DOMAIN subs : Outcome(j) \/ Hung(j))

\* C1 witness: the second sub-message's action threw and was reported
\* once, the first sub-message completed with its reply sent, and handle
\* resolved.
C1_Witness ==
    /\ Len(subs) >= 2
    /\ ActionFailed(2)
    /\ subs[2].replySystemError = 1
    /\ subs[1].pc = "completed"
    /\ subs[1].reply # << >>
    /\ handle = "fulfilled"

\* C2 (wait-for-all join): CommandRunner.handle has settled only if every
\* sub-message has reached its outcome.
C2_WaitForAll ==
    handle \in {"fulfilled", "rejected"} => \A i \in DOMAIN subs : Outcome(i)

\* C2 witness: handle resolved over several sub-messages, one of which
\* failed and one of which sent a reply.
C2_Witness ==
    /\ handle = "fulfilled"
    /\ Len(subs) >= 2
    /\ \E i \in DOMAIN subs : subs[i].pc = "failed"
    /\ \E i \in DOMAIN subs : subs[i].pc = "completed" /\ subs[i].reply # << >>

\* C3 (a hung action blocks only its own sub-message): under fair
\* scheduling every sub-message reaches its outcome unless its own action
\* never returns, whatever its siblings do, and its reply is sent when its
\* action has returned a string; while some action hangs, handle stays
\* pending.
C3_HungBlocksOnlyItself ==
    /\ (handle = "pending")
         ~> (\A i \in DOMAIN subs : Outcome(i) \/ Hung(i))
    /\ [](\A i \in DOMAIN subs :
            subs[i].pc = "completed" /\ IsString(subs[i].result)
                => Len(subs[i].reply) + Len(subs[i].replyEphemeral) = 1)
    /\ []((\E i \in DOMAIN subs : Hung(i)) => handle = "pending")

\* C3 witness: the first sub-message hangs, a later one has completed and
\* sent its reply, and handle is still pending.
C3_Witness ==
    /\ Len(subs) >= 2
    /\ Hung(1)
    /\ \E i \in DOMAIN subs :
         subs[i].pc = "completed" /\ subs[i].reply # << >>
    /\ handle = "pending"

\* The registered command at position k of the registry has keyword t.
RegisteredAs(k, t) == k \in DOMAIN registry /\ cmds[registry[k]].keyword = t

\* C4 (pass ordering, alias precedence): a message whose first token is the
\* keyword of a registered command B is resolved to B, whatever aliases or
\* phrase keywords other registered commands have and wherever they stand
\* in the registry; so a command found by the second pass is found only
\* when no registered keyword equals the first token.
C4_ExactKeywordFirst ==
    \A i \in DOMAIN subs :
        subs[i].pc # "unresolved" =>
            LET first == FirstToken(subs[i].text)
            IN \A k \in DOMAIN registry :
                 RegisteredAs(k, first) => subs[i].command = registry[k]

\* C4 witness: the message was resolved to B by its keyword although A,
\* registered before B, has the first token as an alias.
C4_Witness ==
    \E i \in DOMAIN subs : \E a \in DOMAIN registry : \E b \in DOMAIN registry :
        /\ a < b
        /\ Includes(cmds[registry[a]].aliases, FirstToken(subs[i].text))
        /\ RegisteredAs(b, FirstToken(subs[i].text))
        /\ subs[i].command = registry[b]
        /\ subs[i].invoked # << >>

\* There is a descent of k steps from n at step to target, each step into
\* a subcommand whose keyword or alias is the next token.
RECURSIVE DescendsTo(_, _, _, _, _, _)
DescendsTo(c, n, tokens, step, target, k) ==
    IF step = k THEN n = target
    ELSE \E j \in DOMAIN c[n].subcommands :
            LET s == c[n].subcommands[j].cmd
                t == IF step + 2 <= Len(tokens) THEN tokens[step + 2] ELSE Undefined
            IN /\ (c[s].keyword = t \/ \E a \in DOMAIN c[s].aliases : c[s].aliases[a] = t)
               /\ DescendsTo(c, s, tokens, step + 1, target, k)

\* No subcommand of n has keyword or alias t.
NoSubFor(c, n, t) ==
    \A j \in DOMAIN c[n].subcommands :
        LET s == c[n].subcommands[j].cmd
        IN c[s].keyword # t /\ \A a \in DOMAIN c[s].aliases : c[s].aliases[a] # t

\* C5 (subcommand descent): for a resolved command, exactly one action is
\* invoked; the node it belongs to is reached from the resolved command by k
\* descents, each into a subcommand named (keyword or alias) by the next
\* token, it has no subcommand named by the token after its own, and its
\* arguments are the tokens after its own position k.
C5_GreedyDescent ==
    \A i \in DOMAIN subs :
        subs[i].command # 0 =>
            LET tokens == Tokens(subs[i].text)
                call == subs[i].invoked[1]
                k == Len(tokens) - 1 - Len(call.args)
                after == IF k + 2 <= Len(tokens) THEN tokens[k + 2] ELSE Undefined
            IN /\ Len(subs[i].invoked) = 1
               /\ k >= 0
               /\ DescendsTo(cmds, subs[i].command, tokens, 0, call.node, k)
               /\ NoSubFor(cmds, call.node, after)
               /\ call.args = SubSeq(tokens, k + 2, Len(tokens))

\* C5 witness: tokens [cmd, sub, arg]: the action invoked is that of the
\* subcommand named sub of the resolved command cmd, with [arg].
C5_Witness ==
    \E i \in DOMAIN subs :
        LET tokens == Tokens(subs[i].text)
        IN /\ Len(tokens) = 3
           /\ subs[i].command # 0
           /\ cmds[subs[i].command].keyword = tokens[1]
           /\ Len(subs[i].invoked) = 1
           /\ subs[i].invoked[1].node # subs[i].command
           /\ cmds[subs[i].invoked[1].node].parent = subs[i].command
           /\ cmds[subs[i].invoked[1].node].keyword = tokens[2]
           /\ subs[i].invoked[1].args = <<tokens[3]>>

\* The action of sub-message i has returned.
Returned(i) == i \in DOMAIN subs /\ subs[i].result # NoResult

\* C6 (permission routing): once the action has returned, a string result
\* of an ADMIN node was passed to replyEphemeral once and to reply never, a
\* string result of a USER node to reply once and to replyEphemeral never,
\* and any other result to neither; before that neither was called.
C6_PermissionRouting ==
    \A i \in DOMAIN subs :
        LET m == subs[i]
        IN IF Returned(i) /\ m.result # Undefined
           THEN IF cmds[m.invoked[1].node].permission = ADMIN
                THEN m.replyEphemeral = <<m.result>> /\ m.reply = << >>
                ELSE m.reply = <<m.result>> /\ m.replyEphemeral = << >>
           ELSE m.reply = << >> /\ m.replyEphemeral = << >>

\* C6 witness: an ADMIN node's action returned a text and it went out
\* through replyEphemeral.
C6_Witness ==
    \E i \in DOMAIN subs :
        /\ subs[i].pc = "completed"
        /\ cmds[subs[i].invoked[1].node].permission = ADMIN
        /\ subs[i].replyEphemeral = <<sText>>

\* A reply, public or ephemeral, was sent for sub-message i.
Replied(i) == subs[i].reply # << >> \/ subs[i].replyEphemeral # << >>

\* C7 as stated: a reply is sent iff the result is a non-empty string.
C7_ReplyIffNonEmptyString ==
    \A i \in DOMAIN subs :
        Returned(i) =>
            (Replied(i) <=> (subs[i].result # Undefined /\ subs[i].result # sEmpty))

\* C7 (amended): a reply, public or ephemeral, is sent iff the terminal
\* action's result is a string, the empty string included; a result that
\* is not a string produces no reply.
C7_ReplyIffString ==
    \A i \in DOMAIN subs :
        /\ Returned(i) => (Replied(i) <=> subs[i].result # Undefined)
        /\ ~Returned(i) => ~Replied(i)

\* C7 witness: the action returned the empty string and it was replied.
C7_Witness ==
    \E i \in DOMAIN subs :
        /\ subs[i].result = sEmpty
        /\ subs[i].reply = <<sEmpty>>

\* No registered command has the first token of text as keyword or alias,
\* and none is a phrase whose keyword begins the text.
NoTopLevelMatch(text) ==
    LET first == FirstToken(text)
        lowered == ToLowerCase(text)
    IN \A k \in DOMAIN registry :
         LET n == cmds[registry[k]]
         IN /\ n.keyword # first
            /\ \A a \in DOMAIN n.aliases : n.aliases[a] # first
            /\ ~(n.phrase /\ StartsWith(lowered, ToLowerCase(n.keyword)))

\* C8 (no-op safety): a sub-message that no registered command matches in
\* either pass is a no-op: no action is invoked, none of reply,
\* replyEphemeral and replySystemError is called, its handling resolves,
\* and handle does not reject.
C8_NoOpSafety ==
    /\ handle # "rejected"
    /\ \A i \in DOMAIN subs :
         subs[i].pc # "unresolved" /\ NoTopLevelMatch(subs[i].text) =>
             /\ subs[i].pc = "noop"
             /\ subs[i].promise = "fulfilled"
             /\ subs[i].invoked = << >>
             /\ subs[i].reply = << >>
             /\ subs[i].replyEphemeral = << >>
             /\ subs[i].replySystemError = 0

\* C8 witness: handle resolved over a no-op whose text begins, up to case,
\* with the keyword of a registered command that is not in phrase mode.
C8_Witness ==
    /\ handle = "fulfilled"
    /\ \E i \in DOMAIN subs :
         /\ subs[i].pc = "noop"
         /\ \E k \in DOMAIN registry :
              /\ ~cmds[registry[k]].phrase
              /\ StartsWith(ToLowerCase(subs[i].text),
                            ToLowerCase(cmds[registry[k]].keyword))

\* C9 as stated (admin-only enforcement): the action of an ADMIN node is
\* invoked only for a message whose sender is an admin.
C9_AdminOnly ==
    \A i \in DOMAIN subs : \A j \in DOMAIN subs[i].invoked :
        cmds[subs[i].invoked[j].node].permission = ADMIN => userIsAdmin

\* help with the alias-joined name on every line, descendants included.
RECURSIVE HelpAliasedThroughout(_, _)
HelpAliasedThroughout(c, n) ==
    IF c[n].hidden THEN << >>
    ELSE <<HelpLine(c, n, Keywords(c, n))>>
         \o Flat([i \in DOMAIN c[n].subcommands |->
                     HelpAliasedThroughout(c, c[n].subcommands[i].cmd)])

\* C10 as stated: helpWithAliases yields the lines of help, same nodes in the
\* same order, each with the alias-joined name, descendants included.
C10_HelpWithAliasesThroughout ==
    \A n \in Nodes :
        HelpEnds(cmds, n) => HelpWithAliases(cmds, n) = HelpAliasedThroughout(cmds, n)

\* ----------------------------------------------------------- help listings
\* The setup code hides command n.
HideCommand ==
    \E n \in Nodes :
        /\ ~cmds[n].hidden
        /\ cmds' = Hide(cmds, n)
        /\ setupOps' = setupOps + 1
        /\ UNCHANGED <<registry, trafficVars>>

\* The setup code describes command n.
DescribeCommand ==
    \E n \in Nodes :
        /\ cmds[n].description = Undefined
        /\ cmds' = Desc(cmds, n, sText)
        /\ setupOps' = setupOps + 1
        /\ UNCHANGED <<registry, trafficVars>>

HelpInit == Serving(HelpPrograms)

HelpNext == HideCommand \/ DescribeCommand

\* Help listings of command trees, any of whose commands may be hidden.
HelpSpec == HelpInit /\ [][HelpNext]_vars

\* s is a value of p.subcommands.
ChildOf(c, p, s) == \E j \in DOMAIN c[p].subcommands : c[p].subcommands[j].cmd = s

\* The commands form trees: a command is a subcommand of p exactly when its
\* parent is p, and every parent chain ends.
IsTree(c) ==
    /\ \A p \in DOMAIN c : \A s \in DOMAIN c : ChildOf(c, p, s) <=> c[s].parent = p
    /\ \A n \in DOMAIN c : ~HasParentCycle(c, n)

\* m is r or a descendant of r, found by following parent from m.
RECURSIVE BelowOrAt(_, _, _, _)
BelowOrAt(c, m, r, fuel) ==
    \/ m = r
    \/ /\ c[m].parent # 0
       /\ fuel > 0
       /\ BelowOrAt(c, c[m].parent, r, fuel - 1)

\* m is r or a descendant of r, and no command from m up to r is hidden.
RECURSIVE VisibleFrom(_, _, _, _)
VisibleFrom(c, m, r, fuel) ==
    /\ ~c[m].hidden
    /\ \/ m = r
       \/ /\ c[m].parent # 0
          /\ fuel > 0
          /\ VisibleFrom(c, c[m].parent, r, fuel - 1)

\* The help line of command m.
LineOf(c, m) == HelpLine(c, m, CommandName(c, m))

\* The positions of line in a help listing.
PositionsOf(lines, line) == { i \in DOMAIN lines : lines[i] = line }

\* C11 (hidden propagation): in every command tree, help of a command r
\* lists exactly the commands at or below r that are reached without passing
\* a hidden command, one line each: a hidden command and all its descendants
\* are absent whether or not the descendants are hidden themselves, the
\* other commands keep their lines, and a parent's line comes before its
\* children's.
C11_HiddenPropagation ==
    IsTree(cmds) =>
        \A r \in Nodes :
            LET out == Help(cmds, r)
                visible == { m \in Nodes : VisibleFrom(cmds, m, r, Len(cmds)) }
                below == { m \in Nodes : BelowOrAt(cmds, m, r, Len(cmds)) }
            IN /\ Len(out) = Cardinality(visible)
               /\ \A m \in visible : PositionsOf(out, LineOf(cmds, m)) # {}
               /\ \A m \in below \ visible : PositionsOf(out, LineOf(cmds, m)) = {}
               /\ \A m \in visible \ {r} :
                    \A i \in PositionsOf(out, LineOf(cmds, cmds[m].parent)) :
                        \A j \in PositionsOf(out, LineOf(cmds, m)) : i < j

\* C11 witness: in a tree, command 1 is visible, its child h is hidden, h's
\* child g is not hidden, its other child v is visible, and help of
\* command 1 is the line of command 1 followed by the line of v.
C11_Witness ==
    /\ IsTree(cmds)
    /\ \E h \in Nodes : \E g \in Nodes : \E v \in Nodes :
         /\ cmds[h].parent = 1 /\ cmds[g].parent = h /\ cmds[v].parent = 1
         /\ h # v
         /\ ~cmds[1].hidden /\ cmds[h].hidden /\ ~cmds[g].hidden /\ ~cmds[v].hidden
         /\ Help(cmds, 1) = <<LineOf(cmds, 1), LineOf(cmds, v)>>

\* C12 (alias precedence among subcommands): when a child A of the resolved
\* command has the second token as an alias and a sibling B has it as its
\* keyword, the descent goes into B: the action invoked is never A's, and
\* is that of B or of a command below B, whatever the order of the nest
\* calls.
C12_KeywordBeatsAlias ==
    \A i \in DOMAIN subs :
        (subs[i].command # 0 /\ Len(subs[i].invoked) = 1) =>
            LET p == subs[i].command
                t == TokenAt(Tokens(subs[i].text), 1)
                call == subs[i].invoked[1]
            IN \A A \in Nodes : \A B \in Nodes :
                 ( /\ A # B
                   /\ ChildOf(cmds, p, A) /\ ChildOf(cmds, p, B)
                   /\ Includes(cmds[A].aliases, t)
                   /\ cmds[A].keyword # t
                   /\ cmds[B].keyword = t )
                 => /\ call.node # A
                    /\ BelowOrAt(cmds, call.node, B, Len(cmds))

\* to is reached from from by one or more steps through subcommands.
RECURSIVE ReachableThroughSubs(_, _, _, _)
ReachableThroughSubs(c, from, to, fuel) ==
    \E s \in DOMAIN c :
        /\ ChildOf(c, from, s)
        /\ \/ s = to
           \/ fuel > 0 /\ ReachableThroughSubs(c, s, to, fuel - 1)

\* C13 (acyclic tree): after any sequence of builder calls the structure has
\* no cycle: the parent references from every command end at a command
\* without parent, and no command is reachable from itself through
\* subcommands.
C13_Acyclic ==
    \A n \in Nodes :
        /\ ~HasParentCycle(cmds, n)
        /\ ~ReachableThroughSubs(cmds, n, n, Len(cmds))

\* C14 (exclusive ownership, parent consistency): after any sequence of
\* nest calls every command is a subcommand of at most one command, and it
\* is a subcommand of p exactly when its parent is p.
C14_OwnedByParent ==
    \A s \in Nodes :
        /\ \A p \in Nodes : \A q \in Nodes :
             (ChildOf(cmds, p, s) /\ ChildOf(cmds, q, s)) => p = q
        /\ \A p \in Nodes : ChildOf(cmds, p, s) <=> cmds[s].parent = p

\* C15 (message handling is read-only on commands): no step of handling a
\* parent message, with one or several sub-messages in flight, changes any
\* field of any Command object or the contents of the registry.
C15_CommandsReadOnly == [][cmds' = cmds /\ registry' = registry]_vars

\* C15 witness: two sub-messages were resolved to commands and ran them
\* while both were in flight, and handle has settled.
C15_Witness ==
    /\ handle = "fulfilled"
    /\ Len(subs) = 2
    /\ \A i \in DOMAIN subs : subs[i].command # 0 /\ subs[i].pc = "completed"
    /\ \E i \in DOMAIN subs : subs[i].invoked[1].node # subs[i].command

\* The state of a sub-message in the terms of the specification: Matched
\* covers the time from the call of the action to the end of execute.
StateOf(m) ==
    CASE m.pc = "unresolved" -> "Unresolved"
      [] m.pc = "noop" -> "NoMatch"
      [] m.pc \in {"running", "hung", "replying"} -> "Matched"
      [] m.pc = "completed" -> "Completed"
      [] m.pc = "failed" -> "Failed"

\* The moves of a sub-message the specification allows.
AllowedMoves ==
    { <<"Unresolved", "NoMatch">>, <<"Unresolved", "Matched">>,
      <<"Matched", "Completed">>, <<"Matched", "Failed">> }

\* C16 (per-sub-message state machine without retries): every step leaves
\* a sub-message in its state or moves it Unresolved -> NoMatch,
\* Unresolved -> Matched, Matched -> Completed or Matched -> Failed, so
\* NoMatch, Completed and Failed are never left; an action call once made
\* is never followed by another on the same sub-message; and
\* replySystemError is called at most once, and only on a sub-message that
\* is Failed.
C16_NoRetries ==
    [][ /\ \A i \in DOMAIN subs :
             /\ i \in DOMAIN subs'
             /\ \/ StateOf(subs'[i]) = StateOf(subs[i])
                \/ <<StateOf(subs[i]), StateOf(subs'[i])>> \in AllowedMoves
             /\ subs[i].invoked # << >> => subs'[i].invoked = subs[i].invoked
             /\ subs'[i].replySystemError >= subs[i].replySystemError
        /\ \A i \in DOMAIN subs' :
             /\ Len(subs'[i].invoked) <= 1
             /\ subs'[i].replySystemError <= 1
             /\ subs'[i].replySystemError = 1 => StateOf(subs'[i]) = "Failed" ]_vars

\* C16 witness: of two sub-messages one matched nothing and made no call,
\* and the other had its one action call fail and was reported once.
C16_Witness ==
    /\ Len(subs) = 2
    /\ \E i \in DOMAIN subs :
         /\ StateOf(subs[i]) = "NoMatch"
         /\ subs[i].invoked = << >>
         /\ subs[i].replySystemError = 0
    /\ \E i \in DOMAIN subs :
         /\ StateOf(subs[i]) = "Failed"
         /\ Len(subs[i].invoked) = 1
         /\ subs[i].replySystemError = 1

\* (a) n is in phrase mode and text begins, up to case, with its keyword.
PhraseHit(n, text) ==
    /\ cmds[n].phrase
    /\ Len(cmds[n].keyword) <= Len(text)
    /\ \A k \in 1..Len(cmds[n].keyword) :
         LowerChar(text[k]) = LowerChar(cmds[n].keyword[k])

\* (b) the token first is, as it stands, one of n's aliases.
AliasHit(n, first) ==
    \E a \in DOMAIN cmds[n].aliases : cmds[n].aliases[a] = first

\* C17 (second-pass predicate): for a message that awaits resolution,
\* matches is true of a command exactly when (a) or (b) holds; a message whose first token is no
\* registered keyword is resolved to the first registered command with (a)
\* or (b) and to none when there is none, so a command that is not in
\* phrase mode is resolved in the second pass only through an alias; and
\* the command resolved is always a registered one that is nobody's
\* subcommand.
C17_SecondPassPredicate ==
    \A i \in DOMAIN subs :
        LET text == subs[i].text
            first == FirstToken(text)
            command == subs[i].command
            hit == [n \in Nodes |-> PhraseHit(n, text) \/ AliasHit(n, first)]
        IN /\ subs[i].pc = "unresolved" =>
                \A n \in Nodes : Matches(cmds, n, text) <=> hit[n]
           /\ command # 0 =>
                /\ \E k \in DOMAIN registry : registry[k] = command
                /\ \A p \in Nodes : ~ChildOf(cmds, p, command)
           /\ (subs[i].pc # "unresolved"
               /\ \A k \in DOMAIN registry : ~RegisteredAs(k, first)) =>
                /\ command = 0 <=> \A k \in DOMAIN registry : ~hit[registry[k]]
                /\ command # 0 =>
                     \E k \in DOMAIN registry :
                        /\ registry[k] = command
                        /\ hit[command]
                        /\ ~cmds[command].phrase => AliasHit(command, first)
                        /\ \A j \in 1..(k - 1) : ~hit[registry[j]]

\* C17 witness: the first token is no registered keyword; the command A
\* registered first is not in phrase mode and has an alias that equals the
\* first token only up to case, so it was passed over, and the message was
\* resolved to the phrase command B whose keyword begins the text up to
\* case but not exactly.
C17_Witness ==
    \E i \in DOMAIN subs : \E a \in DOMAIN registry : \E b \in DOMAIN registry :
        LET text == subs[i].text
            A == registry[a]
            B == registry[b]
        IN /\ a < b
           /\ subs[i].invoked # << >>
           /\ subs[i].command = B
           /\ \A k \in DOMAIN registry : ~RegisteredAs(k, FirstToken(text))
           /\ ~cmds[A].phrase
           /\ Includes(cmds[A].aliases, ToLowerCase(FirstToken(text)))
           /\ ~AliasHit(A, FirstToken(text))
           /\ PhraseHit(B, text)
           /\ ~StartsWith(text, cmds[B].keyword)

\* ------------------------------------------------------- cyclic structures
\* One message against setups in which nest has closed a cycle.
CycleInit == Serving(CyclePrograms)

CycleSpec == CycleInit /\ [][RunNext]_vars

\* C18 (descent terminates): on every structure, one with a nest cycle
\* included, run on a resolved command makes at most len(tokens) - 1
\* descents and then invokes exactly one action.
C18_DescentThenOneAction ==
    \A i \in DOMAIN subs :
        (subs[i].pc # "unresolved" /\ subs[i].command # 0) =>
            /\ Len(subs[i].invoked) = 1
            /\ LET tokens == Tokens(subs[i].text)
                   descents == Len(tokens) - 1 - Len(subs[i].invoked[1].args)
               IN descents >= 0 /\ descents <= Len(tokens) - 1

\* The action of sub-message i returned a string and the reply or
\* replyEphemeral that delivers it failed.
ReplyFailed(ms, i) ==
    /\ i \in DOMAIN ms
    /\ ms[i].pc = "failed"
    /\ ms[i].result # NoResult

\* C19 (a reply failure is contained like an action failure): when reply or
\* replyEphemeral fails while delivering an action's string result, the
\* error is caught for that sub-message: replySystemError has been called
\* exactly once on it, its handling resolves, handle never rejects, and the
\* step on which the failure is caught changes no other sub-message.
C19_ReplyFailureContained ==
    /\ [](handle # "rejected")
    /\ [](\A i \in DOMAIN subs :
            ReplyFailed(subs, i) =>
                /\ subs[i].replySystemError = 1
                /\ subs[i].promise = "fulfilled"
                /\ Len(subs[i].invoked) = 1
                /\ Len(subs[i].reply) + Len(subs[i].replyEphemeral) = 1)
    /\ [][\A i \in DOMAIN subs :
            (~ReplyFailed(subs, i) /\ ReplyFailed(subs', i)) =>
                /\ handle' = handle
                /\ \A j \in DOMAIN subs \ {i} : subs'[j] = subs[j]]_vars

\* C19 witness: the reply of the first sub-message failed and was reported
\* once; the second sub-message completed and sent its reply with no error
\* reported on it; handle resolved.
C19_Witness ==
    /\ Len(subs) = 2
    /\ ReplyFailed(subs, 1)
    /\ subs[1].replySystemError = 1
    /\ subs[2].pc = "completed"
    /\ subs[2].replySystemError = 0
    /\ Len(subs[2].reply) + Len(subs[2].replyEphemeral) = 1
    /\ handle = "fulfilled"

\* The commands above n: its parent, the parent's parent, and so on.
Ancestors(c, n) == { a \in DOMAIN c : a # n /\ BelowOrAt(c, n, a, Len(c)) }

\* C20 (reply visibility is decided by the terminal node alone): when the
\* action that ran belongs to a subcommand reached by descent, its string
\* result goes out publicly exactly when that subcommand's permission is
\* USER, and ephemerally otherwise, also when the resolved top-level
\* command or another command above it has a different permission.
C20_TerminalNodeDecides ==
    \A i \in DOMAIN subs :
        (Returned(i) /\ IsString(subs[i].result)
         /\ Terminal(subs[i]) # subs[i].command) =>
            LET t == Terminal(subs[i])
            IN /\ subs[i].command \in Ancestors(cmds, t)
               /\ cmds[t].permission = USER =>
                    subs[i].reply = <<subs[i].result>> /\ subs[i].replyEphemeral = << >>
               /\ cmds[t].permission = ADMIN =>
                    subs[i].replyEphemeral = <<subs[i].result>> /\ subs[i].reply = << >>

\* C20 witness: a USER subcommand reached through an ADMIN top-level
\* command replied publicly.
C20_Witness ==
    \E i \in DOMAIN subs :
        /\ subs[i].command # 0
        /\ cmds[subs[i].command].permission = ADMIN
        /\ subs[i].invoked # << >>
        /\ Terminal(subs[i]) # subs[i].command
        /\ cmds[Terminal(subs[i])].permission = USER
        /\ subs[i].reply = <<sText>>
        /\ subs[i].replyEphemeral = << >>

====
